---- MODULE Spec2Model ----
(***************************************************************************)
(* Model of src/discof/rpc/rpc_testing.py: the differential JSON-RPC       *)
(* tester.  RPCTester.make_rpc_call, RPCTester.compare_responses (a call   *)
(* of DeepDiff with exclude_paths and ignore_order=False),                 *)
(* RPCTester.test_rpc_method and run_test_suite are modelled step by step. *)
(***************************************************************************)
EXTENDS Integers, Sequences, FiniteSets, TLC

(***************************************************************************)
(* Bounds.                                                                 *)
(***************************************************************************)
MaxCases == 3
MaxOnlyFirst == 2

(***************************************************************************)
(* JSON values as Python decodes them.  A value carries its Python type t, *)
(* its numeric value v (True is 1, as in Python), its text s, its mapping  *)
(* m and its list l.                                                       *)
(***************************************************************************)
NoKids == [k \in {} |-> 0]
Sc(t, v, s) == [t |-> t, v |-> v, s |-> s, m |-> NoKids, l |-> <<>>]
Mp(f) == [t |-> "dict", v |-> 0, s |-> "", m |-> f, l |-> <<>>]
Ls(q) == [t |-> "list", v |-> 0, s |-> "", m |-> NoKids, l |-> q]

Int1 == Sc("int", 1, "")
Int2 == Sc("int", 2, "")
BoolTrue == Sc("bool", 1, "")
Float1 == Sc("float", 1, "")
PyNone == Sc("NoneType", 0, "")
StrAbc == Sc("str", 0, "abc")

(***************************************************************************)
(* DeepDiff(resp1, resp2, exclude_paths=..., ignore_order=False).          *)
(* A path root['error']['data'] is the sequence <<"error", "data">>; a     *)
(* list index is the accessor "[0]", "[1]".                                *)
(***************************************************************************)
IndexAccessor(n) == CASE n = 1 -> "[0]" [] n = 2 -> "[1]" [] OTHER -> "[n]"

\* exclude_paths=None excludes nothing; otherwise a level is skipped when
\* its path is one of the entries.
SkipThisNever(path, exclude) == FALSE
SkipThis(path, exclude) == exclude.present /\ path \in exclude.paths

\* Python's == on numbers ignores the difference between bool, int, float.
IsNumeric(x) == x.t \in {"int", "bool", "float"}
TypeDiffersIgnoringNumeric(t1, t2) == t1.t # t2.t /\ ~(IsNumeric(t1) /\ IsNumeric(t2))
TypeDiffers(t1, t2) == t1.t # t2.t

Min(a, b) == IF a < b THEN a ELSE b

RECURSIVE DeepDiff(_, _, _, _)
DeepDiff(t1, t2, path, exclude) ==
  IF SkipThis(path, exclude) THEN {}
  ELSE IF TypeDiffers(t1, t2) THEN {[path |-> path, report |-> "type_changes"]}
  ELSE IF t1.t = "dict" THEN
    {[path |-> Append(path, k), report |-> "dictionary_item_removed"] :
        k \in {x \in (DOMAIN t1.m) \ (DOMAIN t2.m) : ~SkipThis(Append(path, x), exclude)}}
    \cup
    {[path |-> Append(path, k), report |-> "dictionary_item_added"] :
        k \in {x \in (DOMAIN t2.m) \ (DOMAIN t1.m) : ~SkipThis(Append(path, x), exclude)}}
    \cup
    UNION {DeepDiff(t1.m[k], t2.m[k], Append(path, k), exclude) :
        k \in (DOMAIN t1.m) \cap (DOMAIN t2.m)}
  ELSE IF t1.t = "list" THEN
    {[path |-> Append(path, IndexAccessor(n)), report |-> "iterable_item_removed"] :
        n \in {x \in (Len(t2.l) + 1)..Len(t1.l) :
                 ~SkipThis(Append(path, IndexAccessor(x)), exclude)}}
    \cup
    {[path |-> Append(path, IndexAccessor(n)), report |-> "iterable_item_added"] :
        n \in {x \in (Len(t1.l) + 1)..Len(t2.l) :
                 ~SkipThis(Append(path, IndexAccessor(x)), exclude)}}
    \cup
    UNION {DeepDiff(t1.l[n], t2.l[n], Append(path, IndexAccessor(n)), exclude) :
        n \in 1..Min(Len(t1.l), Len(t2.l))}
  ELSE IF t1.v # t2.v \/ t1.s # t2.s
    THEN {[path |-> path, report |-> "values_changed"]}
    ELSE {}

\* compare_responses returns (len(diff) == 0, diff or None); the model keeps
\* the first component and the diff itself.
compare_responses(resp1, resp2, exclude_paths) ==
  LET diff == DeepDiff(resp1, resp2, <<>>, exclude_paths)
  IN  [is_equal |-> Cardinality(diff) = 0, diff |-> diff]


(***************************************************************************)
(* The transport.  session.post either raises before `response` is bound   *)
(* (connection refused, timeout), or returns a response whose              *)
(* raise_for_status() raises (non-2xx), or returns a decodable body.       *)
(***************************************************************************)
Ok(body) == [kind |-> "ok", body |-> body, status |-> 200, text |-> ""]
HttpError(status, text) == [kind |-> "http_error", body |-> PyNone, status |-> status, text |-> text]
Refused == [kind |-> "refused", body |-> PyNone, status |-> 0, text |-> ""]
Timeout == [kind |-> "timeout", body |-> PyNone, status |-> 0, text |-> ""]

\* The except clause of make_rpc_call builds its value from `response`.
FailureValue(o) == Mp(("error" :> Sc("str", 0, o.text)) @@ ("status" :> Sc("int", o.status, "")))

\* raised: an exception leaves make_rpc_call (the handler itself reads the
\* unbound local `response` when post raised).
make_rpc_call(o) ==
  IF o.kind = "ok" THEN [raised |-> FALSE, fault |-> "", value |-> o.body]
  ELSE IF o.kind = "http_error" THEN [raised |-> FALSE, fault |-> "", value |-> FailureValue(o)]
  ELSE [raised |-> TRUE, fault |-> "UnboundLocalError", value |-> PyNone]

(***************************************************************************)
(* Inputs: the response bodies the two servers can give, the test cases    *)
(* and the --only-first values.                                            *)
(***************************************************************************)
Keys == {"error", "data"}
MapsOver(V) == UNION {[D -> V] : D \in SUBSET Keys}

\* Bodies of the suite runs.
RunBodies ==
  { Mp("error" :> Mp("data" :> Int1)), Mp("error" :> Mp("data" :> Int2)),
    Mp("data" :> Int1), Mp("data" :> BoolTrue) }

\* Values of the comparator runs: scalars, lists, mappings of depth two.
Leaves == {Int1, Int2, BoolTrue, Float1, PyNone, StrAbc}
SmallLists == {Ls(<<>>), Ls(<<Int1>>), Ls(<<BoolTrue>>), Ls(<<Int1, Int2>>), Ls(<<Int2, Int1>>)}
Inner == {Int1, BoolTrue, Ls(<<Int1>>), Mp(NoKids),
          Mp("data" :> Int1), Mp("data" :> Int2), Mp("data" :> BoolTrue)}
CmpBodies ==
  Leaves \cup SmallLists \cup {Mp(f) : f \in MapsOver({Int1, Int2, BoolTrue})}
         \cup {Mp(f) : f \in MapsOver(Inner)}

Bodies(kind) == IF kind = "suite" THEN RunBodies ELSE CmpBodies

Transport(kind) ==
  {Ok(b) : b \in Bodies(kind)} \cup {HttpError(404, "Not Found"), HttpError(500, "Not Found")}
    \cup {Refused, Timeout}

Paths == {<<"error">>, <<"error", "data">>, <<"data">>}

Case(payload, has_exclude, paths, has_description, description) ==
  [payload |-> payload, has_exclude |-> has_exclude, exclude_paths |-> paths,
   has_description |-> has_description, description |-> description]

GetHealth == [method |-> "getHealth", id |-> 1]
GetAccountInfo == [method |-> "getAccountInfo", id |-> 1]

RunCases ==
  { Case(GetHealth, FALSE, {}, TRUE, "getHealth jsonrpc=undefined"),
    Case(GetAccountInfo, TRUE, {<<"error", "data">>}, FALSE, ""),
    Case(GetHealth, TRUE, {<<"error">>}, TRUE, "getHealth params=1") }

CmpCases ==
  {Case(GetHealth, FALSE, {}, FALSE, "")}
    \cup {Case(GetHealth, TRUE, S, FALSE, "") : S \in SUBSET Paths}

SeqsUpTo(S, n) == UNION {[1..k -> S] : k \in 0..n}

NoLimit == [set |-> FALSE, n |-> 0]
Limit(n) == [set |-> TRUE, n |-> n]
OnlyFirstValues == {NoLimit} \cup {Limit(n) : n \in (-1)..MaxOnlyFirst}

(***************************************************************************)
(* State.                                                                  *)
(***************************************************************************)
VARIABLES
  servers,      \* which bodies the two servers can answer with
  test_cases,   \* run_test_suite's test_cases
  only_first,   \* run_test_suite's only_first (args.only_first)
  pc,           \* position in run_test_suite / test_rpc_method
  i,            \* enumerate(test_cases, 1) index of the current case
  resp1, resp2, \* test_rpc_method's locals
  is_equal,     \* test_rpc_method's is_equal
  results,      \* run_test_suite's results
  failed_cnt,   \* run_test_suite's failed_cnt
  sent,         \* session.post calls made, in order
  out,          \* what has been printed, in order
  ret,          \* what run_test_suite returned
  fault         \* the exception that left run_test_suite, if any

vars == <<servers, test_cases, only_first, pc, i, resp1, resp2, is_equal,
          results, failed_cnt, sent, out, ret, fault>>

NoResp == [present |-> FALSE, value |-> PyNone]
Resp(v) == [present |-> TRUE, value |-> v]

NotReturned == [kind |-> "running", value |-> <<>>]
ReturnedNone == [kind |-> "None", value |-> <<>>]
ReturnedList(r) == [kind |-> "list", value |-> r]

\* test_case.get("exclude_paths")
ExcludePathsOf(tc) == [present |-> tc.has_exclude, paths |-> tc.exclude_paths]

\* test_case.get("description", f"Test case {i}")
DescriptionOf(tc, n) ==
  IF tc.has_description THEN [text |-> tc.description, n |-> 0]
  ELSE [text |-> "Test case", n |-> n]

StartState ==
  /\ pc = "for" /\ i = 0
  /\ resp1 = NoResp /\ resp2 = NoResp /\ is_equal = FALSE
  /\ results = <<>> /\ failed_cnt = 0
  /\ sent = <<>> /\ out = <<>>
  /\ ret = NotReturned /\ fault = ""

Init ==
  /\ servers = "suite"
  /\ test_cases \in SeqsUpTo(RunCases, MaxCases)
  /\ only_first \in OnlyFirstValues
  /\ StartState

InitCmp ==
  /\ servers = "compare"
  /\ test_cases \in {<<tc>> : tc \in CmpCases}
  /\ only_first \in {NoLimit, Limit(1)}
  /\ StartState


(***************************************************************************)
(* run_test_suite and test_rpc_method, one action per step.                *)
(***************************************************************************)
CurrentCase == test_cases[i]

\* Both calls of test_rpc_method pass the same `payload` object.
PayloadChangedForServer2(url, payload) ==
  IF url = "server2_url" THEN [payload EXCEPT !.id = payload.id + 1] ELSE payload
PayloadSent(url, payload) == payload

\* results.append({"test": description, "passed": result})
PrependResult(rs, r) == <<r>> \o rs
AppendResult(rs, r) == Append(rs, r)

\* failed_cnt += int(not result)
CountEveryCase(result) == 1
FailedIncrement(result) == IF result THEN 0 ELSE 1

\* only_first is not None and failed_cnt >= only_first
ReachedLimitStrictly(cnt, limit) == limit.set /\ cnt > limit.n
ReachedLimit(cnt, limit) == limit.set /\ cnt >= limit.n

\* sum(1 for r in results if r["passed"])
CountAll(rs) == Len(rs)
CountPassed(rs) == Cardinality({j \in 1..Len(rs) : rs[j].passed})

NoDescription == [text |-> "", n |-> 0]

\* The PASS line or the FAIL block of test_rpc_method (the block's dump of
\* the payload and of both responses is not kept).
VerdictEntry(eq, description) ==
  [kind |-> IF eq THEN "PASS" ELSE "FAIL", test |-> description,
   passed |-> 0, total |-> 0, listing |-> <<>>]

\* "Passed: X/Y" and the per-case listing.
SummaryEntry(rs) ==
  [kind |-> "SUMMARY", test |-> NoDescription,
   passed |-> CountPassed(rs), total |-> Len(rs),
   listing |-> [j \in 1..Len(rs) |->
                  [status |-> IF rs[j].passed THEN "ok" ELSE "x", test |-> rs[j].test]]]

\* for i, test_case in enumerate(test_cases, 1): the next case
ForNext ==
  /\ pc = "for" /\ i < Len(test_cases)
  /\ i' = i + 1
  /\ pc' = "call1"
  /\ UNCHANGED <<servers, test_cases, only_first, resp1, resp2, is_equal,
                 results, failed_cnt, sent, out, ret, fault>>

\* the loop is exhausted
ForEnd ==
  /\ pc = "for" /\ i = Len(test_cases)
  /\ pc' = "summary"
  /\ UNCHANGED <<servers, test_cases, only_first, i, resp1, resp2, is_equal,
                 results, failed_cnt, sent, out, ret, fault>>

\* resp1 = self.make_rpc_call(self.server1_url, payload)
Call1 ==
  /\ pc = "call1"
  /\ \E o \in Transport(servers) :
       LET r == make_rpc_call(o) IN
       /\ sent' = Append(sent, [url |-> "server1_url", case |-> i,
                                payload |-> PayloadSent("server1_url", CurrentCase.payload)])
       /\ IF r.raised
            THEN /\ pc' = "raised" /\ fault' = r.fault /\ UNCHANGED resp1
            ELSE /\ pc' = "call2" /\ resp1' = Resp(r.value) /\ UNCHANGED fault
  /\ UNCHANGED <<servers, test_cases, only_first, i, resp2, is_equal,
                 results, failed_cnt, out, ret>>

\* resp2 = self.make_rpc_call(self.server2_url, payload)
Call2 ==
  /\ pc = "call2"
  /\ \E o \in Transport(servers) :
       LET r == make_rpc_call(o) IN
       /\ sent' = Append(sent, [url |-> "server2_url", case |-> i,
                                payload |-> PayloadSent("server2_url", CurrentCase.payload)])
       /\ IF r.raised
            THEN /\ pc' = "raised" /\ fault' = r.fault /\ UNCHANGED resp2
            ELSE /\ pc' = "compare" /\ resp2' = Resp(r.value) /\ UNCHANGED fault
  /\ UNCHANGED <<servers, test_cases, only_first, i, resp1, is_equal,
                 results, failed_cnt, out, ret>>

\* is_equal, diff = self.compare_responses(resp1, resp2, exclude_paths)
Compare ==
  /\ pc = "compare"
  /\ is_equal' = compare_responses(resp1.value, resp2.value,
                                   ExcludePathsOf(CurrentCase)).is_equal
  /\ pc' = "report"
  /\ UNCHANGED <<servers, test_cases, only_first, i, resp1, resp2,
                 results, failed_cnt, sent, out, ret, fault>>

\* the prints of test_rpc_method, then return is_equal
Report ==
  /\ pc = "report"
  /\ out' = Append(out, VerdictEntry(is_equal, DescriptionOf(CurrentCase, i)))
  /\ pc' = "record"
  /\ UNCHANGED <<servers, test_cases, only_first, i, resp1, resp2, is_equal,
                 results, failed_cnt, sent, ret, fault>>

\* results.append(...); failed_cnt += ...; the early return
Record ==
  /\ pc = "record"
  /\ results' = AppendResult(results, [test |-> DescriptionOf(CurrentCase, i),
                                       passed |-> is_equal])
  /\ failed_cnt' = failed_cnt + FailedIncrement(is_equal)
  /\ resp1' = NoResp /\ resp2' = NoResp
  /\ IF ReachedLimit(failed_cnt', only_first)
       THEN pc' = "early_return" /\ ret' = ReturnedNone
       ELSE pc' = "for" /\ UNCHANGED ret
  /\ UNCHANGED <<servers, test_cases, only_first, i, is_equal, sent, out, fault>>

\* the TEST SUMMARY block and return results
Summary ==
  /\ pc = "summary"
  /\ out' = Append(out, SummaryEntry(results))
  /\ ret' = ReturnedList(results)
  /\ pc' = "done"
  /\ UNCHANGED <<servers, test_cases, only_first, i, resp1, resp2, is_equal,
                 results, failed_cnt, sent, fault>>

Next ==
  \/ ForNext
  \/ ForEnd
  \/ Call1
  \/ Call2
  \/ Compare
  \/ Report
  \/ Record
  \/ Summary

Spec == Init /\ [][Next]_vars

SpecCmp == InitCmp /\ [][Next]_vars

TypeOK ==
  /\ pc \in {"for", "call1", "call2", "compare", "report", "record",
             "summary", "done", "early_return", "raised"}
  /\ i \in 0..Len(test_cases)
  /\ failed_cnt \in 0..Len(test_cases)
  /\ Len(results) <= Len(test_cases)


(***************************************************************************)
(* Vocabulary of the properties.                                           *)
(***************************************************************************)
\* number of failed outcomes among the first k recorded ones
FailedAmong(rs, k) == Cardinality({j \in 1..k : ~rs[j].passed})

IsVerdict(e) == e.kind \in {"PASS", "FAIL"}
Verdicts == SelectSeq(out, IsVerdict)
SummaryCount == Cardinality({e \in 1..Len(out) : out[e].kind = "SUMMARY"})

\* the failure limit was met by the first k outcomes
LimitMetAfter(k) == only_first.set /\ FailedAmong(results, k) >= only_first.n

IsExcluded(path, exclude) == exclude.present /\ path \in exclude.paths

\* a value with every excluded position cut out
RECURSIVE Prune(_, _, _)
Prune(v, path, exclude) ==
  IF v.t = "dict"
    THEN Mp([k \in {x \in DOMAIN v.m : ~IsExcluded(Append(path, x), exclude)} |->
               Prune(v.m[k], Append(path, k), exclude)])
  ELSE IF v.t = "list"
    THEN Ls([n \in 1..Len(v.l) |-> Prune(v.l[n], Append(path, IndexAccessor(n)), exclude)])
  ELSE v

DifferOnlyInExcluded ==
  /\ resp1.present /\ resp2.present
  /\ Prune(resp1.value, <<>>, ExcludePathsOf(CurrentCase))
       = Prune(resp2.value, <<>>, ExcludePathsOf(CurrentCase))

\* True in one value against 1 in the other at a position of both values
\* that no exclusion covers
RECURSIVE BoolIntClash(_, _, _, _)
BoolIntClash(a, b, path, exclude) ==
  IF IsExcluded(path, exclude) THEN FALSE
  ELSE IF (a = BoolTrue /\ b = Int1) \/ (a = Int1 /\ b = BoolTrue) THEN TRUE
  ELSE IF a.t = "dict" /\ b.t = "dict"
    THEN \E k \in (DOMAIN a.m) \cap (DOMAIN b.m) :
            BoolIntClash(a.m[k], b.m[k], Append(path, k), exclude)
  ELSE IF a.t = "list" /\ b.t = "list"
    THEN \E n \in 1..Min(Len(a.l), Len(b.l)) :
            BoolIntClash(a.l[n], b.l[n], Append(path, IndexAccessor(n)), exclude)
  ELSE FALSE

HasBoolIntClash ==
  /\ resp1.present /\ resp2.present
  /\ BoolIntClash(resp1.value, resp2.value, <<>>, ExcludePathsOf(CurrentCase))

IsScalar(v) == v.t \notin {"dict", "list"}
Compared == pc \in {"report", "record"}
LastOutcome(rs) == rs[Len(rs)]

(***************************************************************************)
(* C1: with only_first set, once the first k outcomes hold only_first      *)
(* failures the run has returned: k is the last case recorded, the run is  *)
(* at its early return, and nothing was sent for a case after k.           *)
(***************************************************************************)
C1_NoCaseAfterLimit ==
  \A k \in 1..Len(results) :
    LimitMetAfter(k) =>
      /\ Len(results) = k /\ i = k /\ pc = "early_return"
      /\ \A e \in 1..Len(sent) : sent[e].case <= k

C1_Witness ==
  /\ pc = "early_return" /\ only_first.n = 2
  /\ Len(results) < Len(test_cases)
  /\ Len(sent) = 2 * Len(results)

(***************************************************************************)
(* C2: at the early return, run_test_suite returns the outcomes gathered   *)
(* so far (k outcomes, the last one failed, for stop_after_failures=1).    *)
(***************************************************************************)
C2_EarlyReturnsOutcomes ==
  (pc = "early_return" /\ only_first.n = 1) =>
    /\ ret = ReturnedList(results)
    /\ FailedAmong(results, Len(results)) = 1
    /\ ~LastOutcome(results).passed

(***************************************************************************)
(* C3: no transport failure leaves make_rpc_call as an exception: the run  *)
(* is never aborted and the comparator gets two values for every case.     *)
(***************************************************************************)
C3_TransportFailuresRecovered ==
  /\ pc # "raised" /\ fault = ""
  /\ pc = "compare" => resp1.present /\ resp2.present

(***************************************************************************)
(* C4: the j-th outcome is the j-th case's (its description and its        *)
(* verdict), and each case's payload is posted at most once to each        *)
(* server.                                                                 *)
(***************************************************************************)
C4_OrderAndAtMostOnce ==
  /\ \A j \in 1..Len(results) :
       /\ results[j].test = DescriptionOf(test_cases[j], j)
       /\ j <= Len(Verdicts)
       /\ results[j].passed <=> (Verdicts[j].kind = "PASS")
  /\ \A e1, e2 \in 1..Len(sent) :
       (sent[e1].case = sent[e2].case /\ sent[e1].url = sent[e2].url) => e1 = e2
  /\ \A e \in 1..Len(sent) :
       /\ sent[e].case \in 1..Len(test_cases)
       /\ sent[e].payload = test_cases[sent[e].case].payload

C4_Witness ==
  /\ Len(results) >= 2 /\ ~results[1].passed /\ results[2].passed
  /\ results[1].test # results[2].test
  /\ Len(sent) = 2 * Len(results)

(***************************************************************************)
(* C5: at normal completion the summary reads Passed: X/Y with X the       *)
(* number of cases reported PASS and Y the number of cases, and the        *)
(* listing has one line per case, in input order.                          *)
(***************************************************************************)
C5_SummaryCounts ==
  pc = "done" =>
    LET s == out[Len(out)] IN
    /\ s.kind = "SUMMARY"
    /\ s.passed = Cardinality({j \in 1..Len(Verdicts) : Verdicts[j].kind = "PASS"})
    /\ s.total = Len(test_cases)
    /\ Len(s.listing) = Len(test_cases)
    /\ \A j \in 1..Len(s.listing) :
         /\ s.listing[j].test = DescriptionOf(test_cases[j], j)
         /\ (s.listing[j].status = "ok") <=> (Verdicts[j].kind = "PASS")

C5_Witness ==
  /\ pc = "done" /\ Len(test_cases) >= 2
  /\ out[Len(out)].passed = 1 /\ out[Len(out)].total = 2
  /\ out[Len(out)].listing[1].status = "x"


(***************************************************************************)
(* C6: a run that ends at the early return has printed no summary, also    *)
(* when the limit is met on the last case; a run that exhausts the corpus  *)
(* without meeting the limit has printed exactly one summary, after the    *)
(* last verdict; a summary is never printed in a run whose outcomes met    *)
(* the limit.                                                              *)
(***************************************************************************)
C6_SummaryIffNoEarlyExit ==
  /\ SummaryCount <= 1
  /\ pc = "early_return" => (SummaryCount = 0 /\ LimitMetAfter(Len(results)))
  /\ pc = "done" =>
       /\ SummaryCount = 1
       /\ out[Len(out)].kind = "SUMMARY"
       /\ Len(Verdicts) = Len(test_cases)
  /\ SummaryCount = 1 =>
       /\ pc = "done"
       /\ \A k \in 1..Len(results) : ~LimitMetAfter(k)

C6_Witness ==
  /\ pc = "early_return" /\ only_first.n = 2
  /\ Len(results) = Len(test_cases)
  /\ Len(Verdicts) = Len(test_cases)
  /\ SummaryCount = 0

(***************************************************************************)
(* C7: posts go out case by case, server1_url then server2_url, with the   *)
(* case's payload; the comparator runs only when both calls of the case    *)
(* have returned; a case's first post happens only when every earlier case *)
(* has its verdict printed and recorded.                                   *)
(***************************************************************************)
C7_OneCaseAtATime ==
  /\ \A e \in 1..Len(sent) :
       /\ sent[e].case = (e + 1) \div 2
       /\ sent[e].url = IF e % 2 = 1 THEN "server1_url" ELSE "server2_url"
       /\ sent[e].case <= Len(test_cases)
       /\ sent[e].payload = test_cases[sent[e].case].payload
  /\ pc = "call1" => (Len(sent) = 2 * (i - 1) /\ Len(results) = i - 1 /\ Len(Verdicts) = i - 1)
  /\ pc = "call2" => (Len(sent) = 2 * i - 1 /\ Len(results) = i - 1 /\ Len(Verdicts) = i - 1)
  /\ pc = "compare" =>
       /\ Len(sent) = 2 * i /\ resp1.present /\ resp2.present
       /\ Len(results) = i - 1 /\ Len(Verdicts) = i - 1
  /\ pc = "record" => (Len(Verdicts) = i /\ Len(results) = i - 1 /\ Len(sent) = 2 * i)

C7_Witness ==
  /\ pc = "compare" /\ i = 2
  /\ resp1.value = FailureValue(HttpError(404, "Not Found"))
  /\ ~results[1].passed

(***************************************************************************)
(* C8: two responses that are the same once every excluded position is cut *)
(* out compare as equal, and the case is recorded with passed = true.      *)
(***************************************************************************)
C8_ExcludedSkipped ==
  /\ []((Compared /\ DifferOnlyInExcluded) => is_equal)
  /\ [][(pc = "record" /\ DifferOnlyInExcluded) => LastOutcome(results').passed]_vars

C8_Witness ==
  /\ pc = "record"
  /\ resp1.value = Mp("error" :> Mp("data" :> Int1))
  /\ resp2.value = Mp("error" :> Mp("data" :> Int2))
  /\ ExcludePathsOf(CurrentCase) = [present |-> TRUE, paths |-> {<<"error">>}]
  /\ is_equal

C10_EarlyOnlyAfterFailure ==
  /\ failed_cnt = FailedAmong(results, Len(results))
  /\ pc = "early_return" => ~LastOutcome(results).passed

(***************************************************************************)
(* C10 amended: failed_cnt is the number of failed outcomes; for           *)
(* only_first >= 1 an early return comes directly after a failed case; for *)
(* only_first <= 0 the run returns right after its first case whatever the *)
(* verdict, so no second case is reached and only an empty corpus is       *)
(* summarised.                                                             *)
(***************************************************************************)
C10_Amended ==
  /\ failed_cnt = FailedAmong(results, Len(results))
  /\ (pc = "early_return" /\ only_first.n >= 1) => ~LastOutcome(results).passed
  /\ (only_first.set /\ only_first.n <= 0) =>
       /\ i <= 1
       /\ pc = "early_return" <=> Len(results) = 1
       /\ pc \in {"summary", "done"} => test_cases = <<>>
  /\ pc = "done" => (Len(results) = Len(test_cases) /\ SummaryCount = 1)

C10_Witness ==
  /\ pc = "early_return" /\ only_first.set /\ only_first.n = 0
  /\ LastOutcome(results).passed
  /\ Len(test_cases) > 1

====
